---- MODULE Spec2Model ----
(***************************************************************************)
(* ructe: the build-time driver of src/lib.rs (compile_templates,          *)
(* handle_entries, handle_template) as a state machine over an input       *)
(* directory tree and an output file system, and the runtime escaping      *)
(* utilities exercised by the tests of src/lib.rs.                         *)
(*                                                                         *)
(* A run of compile_templates is one call; it is cut into steps at the     *)
(* iterations of the `for entry in read_dir(indir)` loop, because the      *)
(* order in which read_dir yields the entries is not fixed.  Every I/O     *)
(* operation of a step may fail; `io` names the operation that does.       *)
(***************************************************************************)
EXTENDS Integers, Sequences, FiniteSets, TLC

VARIABLES
    tree,     \* the input directory: the listing of indir (never changes)
    fs,       \* output files: path -> sequence of the chunks written
    dirs,     \* output directories created so far
    stack,    \* the active calls of handle_entries, innermost last
    stdout,   \* lines printed by println! in the current run
    result,   \* "none" while no run has ended, else "Ok" / "Err"
    iofail,   \* the I/O operation that failed in the current run, or "none"
    run,      \* number of calls of compile_templates so far
    seen,     \* history: the entries in the order read_dir yielded them
    prev,     \* history: how the previous run ended
    value,    \* the value handed to to_html
    sink      \* the bytes to_html wrote

vars == <<tree, fs, dirs, stack, stdout, result, iofail, run, seen, prev,
          value, sink>>

driverVars == <<tree, fs, dirs, stack, stdout, result, iofail, run, seen, prev>>

-----------------------------------------------------------------------------
(* Bounds *)

MaxTotal == 3
MaxRerunTotal == 2
MaxRuns == 2
MaxLen == 3

-----------------------------------------------------------------------------
(* Strings and paths *)

None == "None"

\* no parse error
NoErr == [description |-> None, position |-> -1]

EndsWith(s, suf) ==
    /\ Len(s) >= Len(suf)
    /\ SubSeq(s, Len(s) - Len(suf) + 1, Len(s)) = suf

suffix == ".rs.html"

\* &filename[..filename.len() - suffix.len()]
StripSuffix(filename) == SubSeq(filename, 1, Len(filename) - Len(suffix))

\* Path::join
Join(p, c) == Append(p, c)

\* OsStr::to_str: None unless the name is valid Unicode
to_str(os) == IF os.unicode THEN os.bytes ELSE None

-----------------------------------------------------------------------------
(* The template parser and the code generator (module template, not part   *)
(* of lib.rs): modelled at their interface.  The bytes of an input file    *)
(* are abstracted to what the grammar makes of them: whether the header    *)
(* and body grammar completes, how many bytes it leaves unconsumed, the    *)
(* offset it stopped at, and the parsed body.                              *)

Valid     == [grammar |-> "Complete",   rest |-> 0, at |-> 9, body |-> "<h1>Hello @name!</h1>"]
Trailing  == [grammar |-> "Complete",   rest |-> 1, at |-> 8, body |-> "<h1>Hello @name!</h1>"]
Malformed == [grammar |-> "Failed",     rest |-> 0, at |-> 2, body |-> ""]
Truncated == [grammar |-> "Incomplete", rest |-> 0, at |-> 4, body |-> ""]

Bufs == {Valid, Trailing, Malformed, Truncated}

\* nom::IResult of template(&buf): Done(remaining, t), Error(err), Incomplete(needed).
\* A complete parse must consume the whole file: unconsumed bytes are an Error.
template(buf) ==
    CASE buf.grammar = "Complete" /\ buf.rest = 0 ->
            [tag |-> "Done", remaining |-> 0, t |-> buf.body,
             err |-> NoErr, needed |-> None]
      [] buf.grammar = "Complete" /\ buf.rest > 0 ->
            [tag |-> "Error", remaining |-> buf.rest, t |-> None,
             err |-> [description |-> "Eof", position |-> buf.at], needed |-> None]
      [] buf.grammar = "Failed" ->
            [tag |-> "Error", remaining |-> 0, t |-> None,
             err |-> [description |-> "ParseFailed", position |-> buf.at], needed |-> None]
      [] buf.grammar = "Incomplete" ->
            [tag |-> "Incomplete", remaining |-> 0, t |-> None,
             err |-> NoErr, needed |-> "Unknown"]

\* Template::write_rust(out, name): the text of the generated function
write_rust(t, name) ==
    "pub fn " \o name \o "(out: &mut Write) -> io::Result<()> {\n"
        \o t \o "\n}\n"

-----------------------------------------------------------------------------
(* Text written by the driver *)

Header == "mod templates {\nuse std::io::{self, Write};\nuse std::fmt::Display;\n\n"

\* include_str!("template_utils.rs")
TemplateUtils == "<template_utils.rs>"

Footer == TemplateUtils \o "\n}\n"

PubMod(name) == "pub mod " \o name \o ";\n\n"

Declaration(name) ==
    "mod template_" \o name \o ";\npub use self::template_" \o name
        \o "::" \o name \o ";\n\n"

TemplateFile(name) == "template_" \o name \o ".rs"

RerunIfChanged(path) == [kind |-> "rerun-if-changed", path |-> path,
                         text |-> "", err |-> NoErr, needed |-> None]

ParseErrorWarning(path, err) ==
    [kind |-> "warning", path |-> path, text |-> "Template parse error in",
     err |-> err, needed |-> None]

IncompleteWarning(path, needed) ==
    [kind |-> "warning", path |-> path, text |-> "Failed to parse template",
     err |-> NoErr, needed |-> needed]

-----------------------------------------------------------------------------
(* The world an operation acts on: w = [fs, dirs, stdout, iofail].  An      *)
(* operation returns [ret, w].  `io` is the I/O operation of the current   *)
(* step that fails ("ok": none does).                                      *)

World == [fs |-> fs, dirs |-> dirs, stdout |-> stdout, iofail |-> iofail]

\* An I/O error: the operation `op` failed, try! returns Err to the caller
Err(w, op) == [ret |-> "Err", w |-> [w EXCEPT !.iofail = op]]

\* faulty variant: an existing file is opened as it is, not truncated
FileCreate_keep(w, p) ==
    IF p \in DOMAIN w.fs THEN w ELSE [w EXCEPT !.fs = (p :> <<>>) @@ w.fs]

\* File::create: creates the file or truncates an existing one
FileCreate(w, p) == [w EXCEPT !.fs = (p :> <<>>) @@ w.fs]

\* create_dir_all: creates the directory and its missing parents
CreateDirAll(w, p) ==
    [w EXCEPT !.dirs = w.dirs \cup {SubSeq(p, 1, k) : k \in 1..Len(p)}]

\* write!(f, ...) that succeeds
Write(w, p, text) == [w EXCEPT !.fs[p] = Append(@, text)]

\* write!(f, ...) that fails after part of the text reached the file
WritePart(w, p, text) ==
    [w EXCEPT !.fs[p] = Append(@, SubSeq(text, 1, Len(text) \div 2))]

Println(w, line) == [w EXCEPT !.stdout = Append(@, line)]

\* faulty variant: a parse error is returned to the caller as an error
parse_error_abort(path, err, w) ==
    [ret |-> "Err", w |-> Println(w, ParseErrorWarning(path, err))]

\* faulty variant: a parse error is reported and the template counted as compiled
parse_error_true(path, err, w) ==
    [ret |-> "Ok(true)", w |-> Println(w, ParseErrorWarning(path, err))]

\* handle_template, the arm Error(err): a warning, and Ok(false)
parse_error(path, err, w) ==
    [ret |-> "Ok(false)", w |-> Println(w, ParseErrorWarning(path, err))]

\* faulty variant: an incomplete parse is returned to the caller as an error
parse_incomplete_abort(path, needed, w) ==
    [ret |-> "Err", w |-> Println(w, IncompleteWarning(path, needed))]

\* faulty variant: an incomplete parse is skipped without a warning
parse_incomplete_silent(path, needed, w) == [ret |-> "Ok(false)", w |-> w]

\* handle_template, the arm Incomplete(needed): a warning, and Ok(false)
parse_incomplete(path, needed, w) ==
    [ret |-> "Ok(false)", w |-> Println(w, IncompleteWarning(path, needed))]

\* faulty variant: a parse that produced a value is compiled whatever input it left
handle_template_lenient(name, path, outdir, buf, w, io) ==
    IF io = "open" THEN Err(w, io)
    ELSE IF io = "read_to_end" THEN Err(w, io)
    ELSE LET r == template(buf) IN
         IF r.tag = "Done" \/ r.remaining > 0
         THEN LET fname == Join(outdir, TemplateFile(name)) IN
              IF io = "create_template" THEN Err(w, io)
              ELSE LET w1 == FileCreate(w, fname) IN
                   IF io = "write_rust" THEN Err(w1, io)
                   ELSE IF io = "write_rust_part"
                        THEN Err(WritePart(w1, fname, write_rust(buf.body, name)), io)
                   ELSE [ret |-> "Ok(true)",
                         w |-> Write(w1, fname, write_rust(buf.body, name))]
         ELSE IF r.tag = "Error" THEN parse_error(path, r.err, w)
         ELSE parse_incomplete(path, r.needed, w)

\* fn handle_template(name, path, outdir) -> io::Result<bool>
\* buf: the bytes that File::open(path) and read_to_end deliver
handle_template(name, path, outdir, buf, w, io) ==
    IF io = "open" THEN Err(w, io)
    ELSE IF io = "read_to_end" THEN Err(w, io)
    ELSE LET r == template(buf) IN
         CASE r.tag = "Done" ->
                LET fname == Join(outdir, TemplateFile(name)) IN
                IF io = "create_template" THEN Err(w, io)
                ELSE LET w1 == FileCreate(w, fname) IN
                     IF io = "write_rust" THEN Err(w1, io)
                     ELSE IF io = "write_rust_part"
                          THEN Err(WritePart(w1, fname, write_rust(r.t, name)), io)
                     ELSE [ret |-> "Ok(true)",
                           w |-> Write(w1, fname, write_rust(r.t, name))]
           [] r.tag = "Error" -> parse_error(path, r.err, w)
           [] r.tag = "Incomplete" -> parse_incomplete(path, r.needed, w)

\* A call of handle_entries(f, indir, outdir) whose read_dir yielded `todo`
Frame(f, indir, outdir, todo) ==
    [f |-> f, indir |-> indir, outdir |-> outdir, todo |-> todo]

NoFrame == Frame(<<>>, <<>>, <<>>, {})

Continue(w) == [ret |-> "Continue", w |-> w, callee |-> NoFrame]

Failed(r) == [ret |-> "Err", w |-> r.w, callee |-> NoFrame]

\* fn compile_templates(indir, outdir), up to the first iteration of the loop
\* of handle_entries(&mut f, indir, &outdir)
compile_templates(listing, w, io) ==
    LET f == <<"templates.rs">>
        outdir == <<"templates">> IN
    IF io = "create_templates_rs" THEN Failed(Err(w, io))
    ELSE LET w1 == FileCreate(w, f) IN
    IF io = "write_header" THEN Failed(Err(w1, io))
    ELSE IF io = "write_header_part" THEN Failed(Err(WritePart(w1, f, Header), io))
    ELSE LET w2 == Write(w1, f, Header) IN
    IF io = "create_dir_all" THEN Failed(Err(w2, io))
    ELSE LET w3 == CreateDirAll(w2, outdir) IN
    IF io = "read_dir" THEN Failed(Err(w3, io))
    ELSE [ret |-> "Call", w |-> w3, callee |-> Frame(f, <<>>, outdir, listing)]

\* faulty variant: mod.rs is put beside the directory instead of into it
ModRs_beside(outdir) == Join(SubSeq(outdir, 1, Len(outdir) - 1), "mod.rs")

\* outdir.join("mod.rs")
ModRs(outdir) == Join(outdir, "mod.rs")

\* One iteration of the loop of handle_entries over `entry`, in the call `fr`
handle_entry(fr, entry, w, io) ==
    IF io = "entry" THEN Failed(Err(w, io))
    ELSE IF io = "file_type" THEN Failed(Err(w, io))
    ELSE
    LET path == Join(fr.indir, entry.file_name.bytes)
        filename == to_str(entry.file_name) IN
    IF entry.is_dir
    THEN IF filename # None
         THEN LET outdir == Join(fr.outdir, filename) IN
              IF io = "create_dir_all" THEN Failed(Err(w, io))
              ELSE LET w1 == CreateDirAll(w, outdir) IN
              IF io = "create_mod" THEN Failed(Err(w1, io))
              ELSE LET w2 == FileCreate(w1, ModRs(outdir)) IN
              IF io = "read_dir" THEN Failed(Err(w2, io))
              ELSE [ret |-> "Call", w |-> w2,
                    callee |-> Frame(ModRs(outdir), path, outdir, entry.sub)]
         ELSE Continue(w)
    ELSE IF filename # None
         THEN IF EndsWith(filename, suffix)
              THEN LET w1 == Println(w, RerunIfChanged(path))
                       name == StripSuffix(filename)
                       r == handle_template(name, path, fr.outdir, entry.data, w1, io) IN
                   IF r.ret = "Err" THEN Failed(r)
                   ELSE IF r.ret = "Ok(true)"
                        THEN IF io = "write_decl" THEN Failed(Err(r.w, io))
                             ELSE IF io = "write_decl_part"
                                  THEN Failed(Err(WritePart(r.w, fr.f, Declaration(name)), io))
                             ELSE Continue(Write(r.w, fr.f, Declaration(name)))
                        ELSE Continue(r.w)
              ELSE Continue(w)
         ELSE Continue(w)

\* handle_entries, after the nested handle_entries for directory `filename`
\* returned Ok: write!(f, "pub mod {name};\n\n")
after_subdir(fr, filename, w, io) ==
    IF io = "write_pub_mod" THEN Failed(Err(w, io))
    ELSE IF io = "write_pub_mod_part"
         THEN Failed(Err(WritePart(w, fr.f, PubMod(filename)), io))
    ELSE Continue(Write(w, fr.f, PubMod(filename)))

\* faulty variant: compile_templates returns Ok without the closing write!
after_entries_forget(w, io) == [ret |-> "Ok", w |-> w]

\* compile_templates, after handle_entries returned Ok: the closing write!
after_entries(w, io) ==
    LET f == <<"templates.rs">> IN
    IF io = "write_footer" THEN Err(w, io)
    ELSE IF io = "write_footer_part" THEN Err(WritePart(w, f, Footer), io)
    ELSE [ret |-> "Ok", w |-> Write(w, f, Footer)]

-----------------------------------------------------------------------------
(* template_utils.rs (included by the tests of lib.rs, not part of it):    *)
(* the ToHtml trait, its implementation for every Display value, and the   *)
(* wrapper Html whose content is written as it is.                         *)

Plain(s) == [wrapper |-> "Display", s |-> s]

Html(s) == [wrapper |-> "Html", s |-> s]

\* the entity written for one character
Entity(c) ==
    CASE c = "<" -> "&lt;"
      [] c = ">" -> "&gt;"
      [] c = "&" -> "&amp;"
      [] c = "\"" -> "&quot;"
      [] c = "'" -> "&#39;"
      [] OTHER -> c

RECURSIVE Escape(_)
Escape(s) ==
    IF s = "" THEN ""
    ELSE Entity(SubSeq(s, 1, 1)) \o Escape(SubSeq(s, 2, Len(s)))

\* faulty variant: every value is written as it is
to_html_raw(v) == v.s

\* ToHtml::to_html: what the call writes to the sink
to_html(v) == IF v.wrapper = "Html" THEN v.s ELSE Escape(v.s)

Alphabet == {"a", " ", "<", ">", "&", "\"", "'"}

RECURSIVE Strings(_)
\* the strings over Alphabet of length at most n
Strings(n) ==
    IF n = 0 THEN {""}
    ELSE LET shorter == Strings(n - 1) IN
         shorter \cup {s \o c : s \in shorter, c \in Alphabet}

\* the values of the tests encoded and raw_html
EncodedInput == "a < b"
RawHtmlInput == "a<b>c</b>"

Values ==
    LET S == Strings(MaxLen) \cup {EncodedInput, RawHtmlInput} IN
    {Plain(s) : s \in S} \cup {Html(s) : s \in S}

-----------------------------------------------------------------------------
(* Input trees: a listing is a set of entries with distinct names; a       *)
(* directory entry carries its own listing in `sub`.                       *)

OsName(bytes) == [bytes |-> bytes, unicode |-> TRUE]

\* a name that is not valid Unicode (shown the way to_string_lossy shows it)
NonUnicode(bytes) == [bytes |-> bytes, unicode |-> FALSE]

FileEntry(file_name, data) ==
    [file_name |-> file_name, is_dir |-> FALSE, data |-> data, sub |-> {}]

DirEntry(file_name, sub) ==
    [file_name |-> file_name, is_dir |-> TRUE, data |-> Malformed, sub |-> sub]

TemplateNames == {"a.rs.html", "b.rs.html", ".rs.html"}

FileEntries ==
    {FileEntry(OsName(n), b) : n \in TemplateNames, b \in Bufs}
        \cup {FileEntry(OsName("notes.txt"), Malformed),
              FileEntry(NonUnicode("\\xFF.rs.html"), Valid)}

RECURSIVE Size(_)
\* the number of entries of a listing, those of its subdirectories included
Size(l) ==
    IF l = {} THEN 0
    ELSE LET e == CHOOSE x \in l : TRUE IN 1 + Size(e.sub) + Size(l \ {e})

RECURSIVE Listings(_)
\* the listings that hold at most n entries in all
Listings(n) ==
    IF n = 0 THEN {{}}
    ELSE LET smaller == Listings(n - 1)
             entries == FileEntries
                            \cup {DirEntry(OsName("sub"), l) : l \in smaller}
                            \cup {DirEntry(NonUnicode("\\xFFdir"), {})}
             larger == UNION {{l \cup {e} : e \in {x \in entries :
                                   /\ \A y \in l : y.file_name.bytes # x.file_name.bytes
                                   /\ Size(l) + 1 + Size(x.sub) <= n}} : l \in smaller}
         IN smaller \cup larger

Trees == Listings(MaxTotal)

NoPrev == [result |-> "none", fs |-> <<>>, seen |-> <<>>]

-----------------------------------------------------------------------------
(* The run of the driver *)

Init ==
    /\ tree \in Trees
    /\ fs = <<>>
    /\ dirs = {}
    /\ stack = <<>>
    /\ stdout = <<>>
    /\ result = "none"
    /\ iofail = "none"
    /\ run = 0
    /\ seen = <<>>
    /\ prev = NoPrev
    /\ value = Plain("")
    /\ sink = <<>>

StartIO == {"ok", "create_templates_rs", "write_header", "write_header_part",
            "create_dir_all", "read_dir"}

EntryIO == {"ok", "entry", "file_type", "create_dir_all", "create_mod", "read_dir",
            "open", "read_to_end", "create_template", "write_rust",
            "write_rust_part", "write_decl", "write_decl_part"}

ReturnIO == {"ok", "write_pub_mod", "write_pub_mod_part"}

FinishIO == {"ok", "write_footer", "write_footer_part"}

Top == stack[Len(stack)]

SetWorld(w) ==
    /\ fs' = w.fs
    /\ dirs' = w.dirs
    /\ stdout' = w.stdout
    /\ iofail' = w.iofail

\* what a step leaves behind: r = [ret, w, callee], rest = the calls that go on
Step(r, rest) ==
    /\ SetWorld(r.w)
    /\ stack' = CASE r.ret = "Err" -> <<>>
                  [] r.ret = "Call" -> Append(rest, r.callee)
                  [] r.ret = "Continue" -> rest
    /\ result' = IF r.ret = "Err" THEN "Err" ELSE result

\* compile_templates(indir, outdir) is entered
Begin ==
    /\ stack = <<>>
    /\ \E io \in StartIO :
         LET w0 == [fs |-> fs, dirs |-> dirs, stdout |-> <<>>, iofail |-> "none"]
             r == compile_templates(tree, w0, io) IN
         /\ SetWorld(r.w)
         /\ stack' = IF r.ret = "Call" THEN <<r.callee>> ELSE <<>>
         /\ result' = IF r.ret = "Err" THEN "Err" ELSE "none"
    /\ run' = run + 1
    /\ seen' = <<>>
    /\ prev' = IF result = "Ok"
               THEN [result |-> result, fs |-> fs, seen |-> seen]
               ELSE NoPrev
    /\ UNCHANGED <<tree, value, sink>>

\* the build script calls compile_templates on an empty output directory
CompileTemplates ==
    /\ run = 0
    /\ Begin

\* the build script runs again, on the same input and output directories
Recompile ==
    /\ run > 0
    /\ run < MaxRuns
    /\ result # "none"
    /\ Begin

\* read_dir yields the next entry of the innermost call, in any order
Entry ==
    /\ stack # <<>>
    /\ \E e \in Top.todo, io \in EntryIO :
         LET fr == Top
             rest == [stack EXCEPT ![Len(stack)].todo = @ \ {e}] IN
         /\ Step(handle_entry(fr, e, World, io), rest)
         /\ seen' = Append(seen, Join(fr.indir, e.file_name.bytes))
    /\ UNCHANGED <<tree, run, prev, value, sink>>

\* the nested handle_entries has no entry left and returns Ok
Return ==
    /\ Len(stack) > 1
    /\ Top.todo = {}
    /\ \E io \in ReturnIO :
         LET rest == SubSeq(stack, 1, Len(stack) - 1)
             fr == rest[Len(rest)]
             filename == Top.indir[Len(Top.indir)] IN
         Step(after_subdir(fr, filename, World, io), rest)
    /\ UNCHANGED <<tree, run, seen, prev, value, sink>>

\* the outermost handle_entries returns Ok and compile_templates ends
Finish ==
    /\ Len(stack) = 1
    /\ Top.todo = {}
    /\ \E io \in FinishIO :
         LET r == after_entries(World, io) IN
         /\ SetWorld(r.w)
         /\ result' = r.ret
    /\ stack' = <<>>
    /\ UNCHANGED <<tree, run, seen, prev, value, sink>>

Next == CompileTemplates \/ Entry \/ Return \/ Finish

Spec == Init /\ [][Next]_vars

NextRerun == Next \/ Recompile

InitRerun ==
    /\ tree \in Listings(MaxRerunTotal)
    /\ fs = <<>>
    /\ dirs = {}
    /\ stack = <<>>
    /\ stdout = <<>>
    /\ result = "none"
    /\ iofail = "none"
    /\ run = 0
    /\ seen = <<>>
    /\ prev = NoPrev
    /\ value = Plain("")
    /\ sink = <<>>

SpecRerun == InitRerun /\ [][NextRerun]_vars

-----------------------------------------------------------------------------
(* The runtime utilities (template_utils.rs), as the tests of lib.rs use   *)
(* them: a value is rendered into a sink by to_html.                       *)

InitHtml ==
    /\ tree = {}
    /\ fs = <<>>
    /\ dirs = {}
    /\ stack = <<>>
    /\ stdout = <<>>
    /\ result = "none"
    /\ iofail = "none"
    /\ run = 0
    /\ seen = <<>>
    /\ prev = NoPrev
    /\ value \in Values
    /\ sink = <<>>

\* value.to_html(&mut buf).unwrap()
CallToHtml ==
    /\ sink = <<>>
    /\ sink' = <<to_html(value)>>
    /\ UNCHANGED <<value, driverVars>>

NextHtml == CallToHtml

SpecHtml == InitHtml /\ [][NextHtml]_vars

-----------------------------------------------------------------------------
(* Vocabulary of the properties *)

Range(seq) == {seq[i] : i \in 1..Len(seq)}

Count(seq, x) == Cardinality({i \in 1..Len(seq) : seq[i] = x})

RECURSIVE Nodes(_, _)
\* every entry of a listing and of the directories below it, with its place
Nodes(listing, indir) ==
    UNION {{[dir |-> indir, entry |-> e, path |-> Join(indir, e.file_name.bytes)]}
               \cup Nodes(e.sub, Join(indir, e.file_name.bytes)) : e \in listing}

AllNodes == Nodes(tree, <<>>)

\* the entries the active calls of handle_entries have still to yield
Pending == UNION {Nodes(stack[i].todo, stack[i].indir) : i \in 1..Len(stack)}

Paths(nodes) == {n.path : n \in nodes}

\* the module file of input directory dir, and its output directory
ModFileOf(dir) ==
    IF dir = <<>> THEN <<"templates.rs">> ELSE <<"templates">> \o dir \o <<"mod.rs">>

OutDirOf(dir) == <<"templates">> \o dir

IsTemplate(n) ==
    /\ ~n.entry.is_dir
    /\ n.entry.file_name.unicode
    /\ EndsWith(n.entry.file_name.bytes, suffix)

NameOf(n) == StripSuffix(n.entry.file_name.bytes)

TemplatePath(n) == Append(OutDirOf(n.dir), TemplateFile(NameOf(n)))

Chunks(p) == IF p \in DOMAIN fs THEN fs[p] ELSE <<>>

Parses(n) == template(n.entry.data).tag = "Done"

Declared(n) == Count(Chunks(ModFileOf(n.dir)), Declaration(NameOf(n))) >= 1

\* template_<name>.rs holds exactly the text write_rust generates
Written(n) ==
    Chunks(TemplatePath(n)) = <<write_rust(template(n.entry.data).t, NameOf(n))>>

WarningsFor(path) ==
    {i \in 1..Len(stdout) : stdout[i].kind = "warning" /\ stdout[i].path = path}

LastSeen == IF seen = <<>> THEN <<>> ELSE seen[Len(seen)]

\* the run has ended
Ended == run > 0 /\ stack = <<>>

\* handle_template got as far as parsing the file of n
Parsed(n) ==
    /\ n.path \in Range(seen)
    /\ ~(n.path = LastSeen /\ iofail \in {"entry", "file_type", "open", "read_to_end"})

-----------------------------------------------------------------------------
(* C1: a parse failure (Error or Incomplete) of one template file never    *)
(* aborts the run: as long as no I/O operation fails, the run is not in    *)
(* error, every entry of the tree is either already handled or still to be *)
(* yielded by an active call, a file that failed to parse got its warning  *)
(* (handle_template returned Ok(false)), and the run ends with Ok having   *)
(* handled every entry.                                                    *)
C1_ParseFailureNeverAborts ==
    /\ iofail = "none" => result # "Err"
    /\ (run > 0 /\ iofail = "none") =>
          Paths(AllNodes) = Range(seen) \cup Paths(Pending)
    /\ (Ended /\ iofail = "none") => result = "Ok"
    /\ result = "Ok" => Paths(AllNodes) = Range(seen)
    /\ \A n \in AllNodes :
          (IsTemplate(n) /\ ~Parses(n) /\ Parsed(n)) =>
              /\ WarningsFor(n.path) # {}
              /\ ~Declared(n)

\* a run that ended Ok although a file failed to parse before a sibling compiled
C1_Witness ==
    /\ result = "Ok"
    /\ \E i, j \in 1..Len(seen) :
         /\ i < j
         /\ \E m, n \in AllNodes :
              /\ m.path = seen[i] /\ n.path = seen[j] /\ m.dir = n.dir
              /\ IsTemplate(m) /\ ~Parses(m)
              /\ IsTemplate(n) /\ Parses(n) /\ Declared(n)

-----------------------------------------------------------------------------
(* C2 (as claimed): in every state of a run, the module file of a          *)
(* directory holds the declaration of <name> if and only if <name>.rs.html *)
(* parsed to Done and template_<name>.rs was created and completely        *)
(* written; for a file that failed to parse there is no template_<name>.rs *)
(* and no declaration.                                                     *)
C2_Original ==
    \A n \in AllNodes : IsTemplate(n) =>
        /\ Declared(n) <=> (Parsed(n) /\ Parses(n) /\ Written(n))
        /\ ~Parses(n) => (TemplatePath(n) \notin DOMAIN fs /\ ~Declared(n))

DeclWriteFailed(n) ==
    /\ n.path = LastSeen
    /\ iofail \in {"write_decl", "write_decl_part"}

(* C2 (amended): between two iterations of the loop of handle_entries and  *)
(* when the run has ended, the declaration is in the module file if and    *)
(* only if the file parsed to Done, template_<name>.rs was created and     *)
(* completely written, and the write of the declaration itself did not     *)
(* fail; a file that failed to parse has no template_<name>.rs and no      *)
(* declaration; and no declaration is written twice.                       *)
C2_DeclaredIffCompiled ==
    \A n \in AllNodes : IsTemplate(n) =>
        /\ Declared(n) <=>
              (Parsed(n) /\ Parses(n) /\ Written(n) /\ ~DeclWriteFailed(n))
        /\ ~Parses(n) => (TemplatePath(n) \notin DOMAIN fs /\ ~Declared(n))
        /\ Count(Chunks(ModFileOf(n.dir)), Declaration(NameOf(n))) <= 1

\* one file of a directory compiled and declared, its sibling failed and skipped
C2_Witness ==
    /\ result = "Ok"
    /\ \E m, n \in AllNodes :
         /\ m.dir = n.dir /\ IsTemplate(m) /\ IsTemplate(n)
         /\ Parses(m) /\ Written(m) /\ Declared(m)
         /\ ~Parses(n) /\ Parsed(n)

-----------------------------------------------------------------------------
(* C3: a file whose parse yields a value but leaves input unconsumed is    *)
(* treated as failed: no template_<name>.rs is written, no declaration is  *)
(* emitted, and once it was parsed it has its warning.                     *)
HasTrailingInput(n) ==
    /\ IsTemplate(n)
    /\ n.entry.data.grammar = "Complete"
    /\ n.entry.data.rest > 0

-----------------------------------------------------------------------------
(* C4 (as claimed): compile_templates returns Err only when writing the    *)
(* generated output fails; a failure to open or read one input template    *)
(* file leaves the run going.                                              *)
OutputOps ==
    {"create_templates_rs", "write_header", "write_header_part", "create_dir_all",
     "create_mod", "create_template", "write_rust", "write_rust_part",
     "write_decl", "write_decl_part", "write_pub_mod", "write_pub_mod_part",
     "write_footer", "write_footer_part"}

C4_Original ==
    /\ result = "Err" => iofail \in OutputOps
    /\ iofail \in {"open", "read_to_end"} => result # "Err"

(* C4 (amended): compile_templates returns Err exactly when an I/O         *)
(* operation fails, be it on the output (creating or writing a file,       *)
(* creating a directory) or on the input (listing a directory, reading an  *)
(* entry or its type, opening or reading a template file); a file that     *)
(* only fails to parse is skipped and the run, if no I/O fails, ends Ok.   *)
C4_ErrIffIoFailure ==
    /\ result = "Err" <=> iofail # "none"
    /\ iofail # "none" => stack = <<>>
    /\ (Ended /\ iofail = "none") => result = "Ok"
    /\ \A n \in AllNodes :
          (IsTemplate(n) /\ ~Parses(n) /\ Parsed(n)) =>
              (TemplatePath(n) \notin DOMAIN fs /\ ~Declared(n))

\* the run was aborted because an input template file could not be opened
C4_Witness ==
    /\ result = "Err"
    /\ iofail = "open"
    /\ \E n \in AllNodes : IsTemplate(n) /\ n.path = LastSeen

-----------------------------------------------------------------------------
(* C5 (as claimed): a regular file (with a Unicode name) is processed as a *)
(* template if and only if its name ends with ".rs.html"; the name used    *)
(* for template_<name>.rs and for the declaration is the file name without *)
(* that suffix and is a non-empty identifier; a file without the suffix    *)
(* produces no output file, no declaration and no warning; and no module   *)
(* file holds the same declaration twice.                                  *)
IdentStart ==
    {"a", "b", "c", "d", "e", "f", "g", "h", "i", "j", "k", "l", "m", "n", "o",
     "p", "q", "r", "s", "t", "u", "v", "w", "x", "y", "z", "_"}

IdentContinue == IdentStart \cup {"0", "1", "2", "3", "4", "5", "6", "7", "8", "9"}

IsIdentifier(s) ==
    /\ s # ""
    /\ SubSeq(s, 1, 1) \in IdentStart
    /\ \A i \in 2..Len(s) : SubSeq(s, i, i) \in IdentContinue

\* the loop of handle_entries got past entry() and file_type() for n
Handled(n) ==
    /\ n.path \in Range(seen)
    /\ ~(n.path = LastSeen /\ iofail \in {"entry", "file_type"})

ProcessedAsTemplate(n) == Count(stdout, RerunIfChanged(n.path)) >= 1

\* the module files and the template files the tree accounts for
ExpectedFiles ==
    {<<"templates.rs">>}
        \cup {ModFileOf(d.path) : d \in {n \in AllNodes : n.entry.is_dir}}
        \cup {TemplatePath(n) : n \in {m \in AllNodes : IsTemplate(m)}}

IsModFile(p) == p[Len(p)] \in {"templates.rs", "mod.rs"}

NoDuplicateDeclarations ==
    \A p \in DOMAIN fs : IsModFile(p) =>
        \A i, j \in 1..Len(fs[p]) : fs[p][i] = fs[p][j] => i = j

SuffixDecides ==
    \A n \in AllNodes : (~n.entry.is_dir /\ n.entry.file_name.unicode /\ Handled(n)) =>
        /\ ProcessedAsTemplate(n) <=> EndsWith(n.entry.file_name.bytes, suffix)
        /\ ~EndsWith(n.entry.file_name.bytes, suffix) => WarningsFor(n.path) = {}
        /\ (IsTemplate(n) /\ Parses(n) /\ iofail = "none") =>
              /\ Written(n)
              /\ Declared(n)
              /\ NameOf(n) \o suffix = n.entry.file_name.bytes

\* the name of a declared template is an identifier
NamesAreIdentifiers ==
    \A n \in AllNodes : (IsTemplate(n) /\ Declared(n)) => IsIdentifier(NameOf(n))

C5_Original ==
    /\ SuffixDecides
    /\ DOMAIN fs \subseteq ExpectedFiles
    /\ NoDuplicateDeclarations
    /\ NamesAreIdentifiers

\* what is left of C5 when the name need not be an identifier
C5_ExceptIdentifier ==
    /\ SuffixDecides
    /\ DOMAIN fs \subseteq ExpectedFiles
    /\ NoDuplicateDeclarations

-----------------------------------------------------------------------------
(* C6 (as claimed): after a run that returned Ok, every subdirectory of    *)
(* the input, at any depth, has its output directory with a mod.rs, is     *)
(* declared exactly once (`pub mod <dirname>;`) in the module file of its  *)
(* parent, and every module file declares exactly the templates that       *)
(* compiled in its own directory, whose template_<name>.rs lie beside it.  *)
DirNodes == {n \in AllNodes : n.entry.is_dir}

Mirrored(d) ==
    /\ OutDirOf(d.path) \in dirs
    /\ ModFileOf(d.path) \in DOMAIN fs
    /\ Count(Chunks(ModFileOf(d.dir)), PubMod(d.entry.file_name.bytes)) = 1

\* the module file of dir declares the compiled templates of dir, no others
DeclaresItsOwn(dir) ==
    \A m \in {n \in AllNodes : IsTemplate(n)} :
        Count(Chunks(ModFileOf(dir)), Declaration(NameOf(m))) =
            Cardinality({n \in AllNodes : /\ n.dir = dir
                                          /\ IsTemplate(n) /\ Parses(n)
                                          /\ NameOf(n) = NameOf(m)})

CompiledInPlace ==
    \A n \in AllNodes : (IsTemplate(n) /\ Parses(n)) => (Written(n) /\ Declared(n))

C6_Original ==
    result = "Ok" =>
        /\ \A d \in DirNodes : Mirrored(d) /\ DeclaresItsOwn(d.path)
        /\ DeclaresItsOwn(<<>>)
        /\ CompiledInPlace

(* C6 (amended): after a run that returned Ok, every subdirectory whose    *)
(* name is valid Unicode (and so are the names above it) is mirrored as    *)
(* claimed; a subdirectory whose name is not valid Unicode is skipped:     *)
(* it has no output directory and no `pub mod` line.                       *)
C6_UnicodeDirsMirrored ==
    result = "Ok" =>
        /\ \A d \in DirNodes :
              IF d.entry.file_name.unicode
              THEN Mirrored(d) /\ DeclaresItsOwn(d.path)
              ELSE /\ OutDirOf(d.path) \notin dirs
                   /\ Count(Chunks(ModFileOf(d.dir)), PubMod(d.entry.file_name.bytes)) = 0
        /\ DeclaresItsOwn(<<>>)
        /\ CompiledInPlace

\* a directory two levels down is mirrored and a template beside it compiled
C6_Witness ==
    /\ result = "Ok"
    /\ \E d \in DirNodes, n \in AllNodes :
         /\ Len(d.path) = 2 /\ Mirrored(d)
         /\ n.dir = d.dir /\ IsTemplate(n) /\ Parses(n) /\ Declared(n) /\ Written(n)

-----------------------------------------------------------------------------
(* C8 (as claimed): a file that fails to parse, with Error or Incomplete,  *)
(* gets exactly one warning that names its path and carries a message and  *)
(* the position of the failure; no other file gets a warning.              *)
FailedToParse(n) == IsTemplate(n) /\ Parsed(n) /\ ~Parses(n)

HasPosition(line) == line.err # NoErr /\ line.err.position \in Nat

C8_Original ==
    \A n \in AllNodes :
        IF FailedToParse(n)
        THEN /\ Cardinality(WarningsFor(n.path)) = 1
             /\ \A i \in WarningsFor(n.path) : stdout[i].text # "" /\ HasPosition(stdout[i])
        ELSE WarningsFor(n.path) = {}

(* C8 (amended): a file that fails to parse gets exactly one warning that  *)
(* names its path; for Error it carries the parser's error (description    *)
(* and position), for Incomplete it carries how much input was needed and  *)
(* no position; no other file gets a warning.                              *)
C8_OneWarningPerFailure ==
    \A n \in AllNodes :
        IF FailedToParse(n)
        THEN /\ Cardinality(WarningsFor(n.path)) = 1
             /\ \A i \in WarningsFor(n.path) :
                  LET r == template(n.entry.data) IN
                  IF r.tag = "Error"
                  THEN stdout[i] = ParseErrorWarning(n.path, r.err) /\ HasPosition(stdout[i])
                  ELSE stdout[i] = IncompleteWarning(n.path, r.needed)
                          /\ ~HasPosition(stdout[i])
        ELSE WarningsFor(n.path) = {}

\* a run that warned about an Error and about an Incomplete, and compiled a file
C8_Witness ==
    /\ result = "Ok"
    /\ \E i, j \in 1..Len(stdout) :
         /\ stdout[i].kind = "warning" /\ stdout[i].err # NoErr
         /\ stdout[j].kind = "warning" /\ stdout[j].needed # None
    /\ \E n \in AllNodes : IsTemplate(n) /\ Parses(n) /\ Declared(n)

-----------------------------------------------------------------------------
(* C10 (as claimed): in templates.rs the header is written first, every    *)
(* declaration after it, and the footer exactly once, last, if and only if *)
(* handle_entries succeeded for the whole tree; an I/O failure stops the   *)
(* run where it happens and the footer is never written.                   *)
TemplatesRs == <<"templates.rs">>

IsPrefix(s, t) == Len(s) <= Len(t) /\ SubSeq(t, 1, Len(s)) = s

\* the call handle_entries(&mut f, indir, &outdir) of compile_templates returned Ok
HandleEntriesOk ==
    Ended /\ iofail \in {"none", "write_footer", "write_footer_part"}

Framed(c) ==
    /\ c # <<>> => IsPrefix(c[1], Header)
    /\ Len(c) > 1 => c[1] = Header
    /\ Count(c, Footer) <= 1
    /\ Count(c, Footer) = 1 => c[Len(c)] = Footer
    /\ iofail # "none" => (result = "Err" /\ stack = <<>> /\ Count(c, Footer) = 0)

C10_Original ==
    run > 0 =>
        /\ Framed(Chunks(TemplatesRs))
        /\ Count(Chunks(TemplatesRs), Footer) = 1 <=> HandleEntriesOk

(* C10 (amended): as claimed, but the footer is in templates.rs if and     *)
(* only if handle_entries succeeded for the whole tree and the write of    *)
(* the footer itself succeeded, that is, if and only if the run returned   *)
(* Ok; the footer is written only after handle_entries succeeded.          *)
C10_FramedIffOk ==
    run > 0 =>
        /\ Framed(Chunks(TemplatesRs))
        /\ Count(Chunks(TemplatesRs), Footer) = 1 <=> result = "Ok"
        /\ result = "Ok" => HandleEntriesOk
        /\ stack # <<>> => Count(Chunks(TemplatesRs), Footer) = 0

\* templates.rs complete: header, at least one declaration, footer
C10_Witness ==
    /\ result = "Ok"
    /\ LET c == Chunks(TemplatesRs) IN
         /\ Len(c) >= 3
         /\ c[1] = Header
         /\ c[Len(c)] = Footer
         /\ \E n \in AllNodes : n.dir = <<>> /\ IsTemplate(n) /\ c[2] = Declaration(NameOf(n))

-----------------------------------------------------------------------------
(* C7 (as claimed): two runs over the same input produce byte-identical    *)
(* output, in whatever order each run's read_dir yields the entries.       *)
RECURSIVE Concat(_)
Concat(chunks) == IF chunks = <<>> THEN "" ELSE chunks[1] \o Concat(Tail(chunks))

Bytes(files) == [p \in DOMAIN files |-> Concat(files[p])]

BothOk == result = "Ok" /\ prev.result = "Ok"

C7_Original == BothOk => Bytes(fs) = Bytes(prev.fs)

(* C7 (amended): two runs over the same input that both return Ok produce  *)
(* byte-identical output when read_dir yields the entries in the same      *)
(* order in both; in any order they produce the same files, byte-identical *)
(* template_<name>.rs, and module files that hold the same lines, possibly *)
(* in another order.                                                       *)
C7_SameOrderSameBytes ==
    BothOk =>
        /\ seen = prev.seen => Bytes(fs) = Bytes(prev.fs)
        /\ DOMAIN fs = DOMAIN prev.fs
        /\ \A p \in DOMAIN fs :
              /\ Len(fs[p]) = Len(prev.fs[p])
              /\ Range(fs[p]) = Range(prev.fs[p])
              /\ ~IsModFile(p) => Concat(fs[p]) = Concat(prev.fs[p])

\* a second Ok run in the same order, over a module file with two declarations
C7_Witness ==
    /\ BothOk
    /\ seen = prev.seen
    /\ Len(Chunks(TemplatesRs)) >= 4

-----------------------------------------------------------------------------
(* C9: to_html of a plain value writes it with each `<`, `>` and `&`       *)
(* replaced by its entity, so that no `<` or `>` is left in the output     *)
(* ("a < b" gives "a &lt; b"); to_html of Html(s) writes s unchanged.       *)
HasChar(s, c) == \E i \in 1..Len(s) : SubSeq(s, i, i) = c

RECURSIVE Replaced(_)
\* s with each of the three characters replaced, everything else kept
Replaced(s) ==
    IF s = "" THEN ""
    ELSE LET c == SubSeq(s, 1, 1)
             e == IF c = "<" THEN "&lt;"
                  ELSE IF c = ">" THEN "&gt;"
                  ELSE IF c = "&" THEN "&amp;"
                  ELSE c
         IN e \o Replaced(SubSeq(s, 2, Len(s)))

C9_EscapedUnlessRaw ==
    sink # <<>> =>
        /\ Len(sink) = 1
        /\ value.wrapper = "Html" => sink[1] = value.s
        /\ value.wrapper = "Display" =>
              /\ ~HasChar(sink[1], "<")
              /\ ~HasChar(sink[1], ">")
              /\ (~HasChar(value.s, "\"") /\ ~HasChar(value.s, "'")) =>
                    sink[1] = Replaced(value.s)
        /\ value = Plain(EncodedInput) => sink[1] = "a &lt; b"
        /\ value = Html(RawHtmlInput) => sink[1] = "a<b>c</b>"

\* the test encoded: "a < b" was written as "a &lt; b"
C9_Witness ==
    /\ value = Plain(EncodedInput)
    /\ sink = <<"a &lt; b">>

====
